---- MODULE Spec2Model ----
(***************************************************************************)
(* intext: sliding-window chunking (buildChunks) and the extract pipeline  *)
(* (per-chunk workers, join, final reduction, provenance).                 *)
(*                                                                         *)
(* JavaScript runs every piece of code between two awaits to completion,   *)
(* so an action is one such piece; a worker that stands at the top of its  *)
(* loop (pc = "running") is inside a synchronous piece, and nothing else   *)
(* moves until it has claimed an index.                                    *)
(***************************************************************************)
EXTENDS Integers, Sequences, FiniteSets, TLC

VARIABLES
  \* ---- buildChunks (src/src/chunking.ts) ----
  text,               \* the document, a sequence of characters
  tokens,             \* tokenizer(text), a sequence of tokens (each a sequence of characters)
  chunkTokens,        \* window size in tokens
  overlapTokens,      \* overlap in tokens
  tokenCharPositions, \* sequence of [start, end]
  searchIdx,          \* search cursor of the offset computation
  i,                  \* token cursor of the window loop
  chunks,             \* the windows built so far (chunkId = Len(chunks))
  bpc,                \* "idle", "called", "positions", "loop", "returned", "threw"
  \* ---- extract (src/examples/basic-example.ts) ----
  schema,             \* opts.schema
  concurrency,        \* opts.concurrency
  extPc,              \* "idle", "chunking", "spawning", "joining", "reducing", "returned", "rejected"
  extError,           \* the error extract rejected with, "none" otherwise
  pointer,            \* the shared claim cursor
  wcount,             \* number of workers to spawn
  workers,            \* sequence of [pc, idx], one per spawned worker
  rawResults,         \* the shared result collection
  issued,             \* the requests sent to the completion call, in order
  served,             \* what the completion call answered for each chunk index
  completionOrder,    \* chunk ids in the order their calls completed
  reductionPrompt,    \* the compacted chunk results rendered into the reduction prompt
  reduceServed,       \* what the completion call answered to the reduction request
  result,             \* the ExtractResult returned
  \* ---- createIntext (src/examples/basic-example.ts) ----
  defaultRequestParams, \* params.defaultRequestParams || {}
  clientParams,       \* params.clientParams
  llmCallOptions,     \* opts.llmCallOptions
  \* ---- two extract calls on one instance ----
  \* ---- debugLog ----
  debug,              \* opts.debug
  consoleLog,         \* the lines written by console.log, in order
  calls,              \* per call: [pc, chunkCount, concurrency, wcount, workers, rawResults, served, json]
  pointers            \* the claim cursor of each call

chunkVars == <<text, tokens, chunkTokens, overlapTokens, tokenCharPositions,
               searchIdx, i, chunks, bpc>>
extVars == <<schema, concurrency, extPc, extError, pointer, wcount, workers,
             rawResults, issued, served, completionOrder, reductionPrompt,
             reduceServed, result>>
instVars == <<defaultRequestParams, clientParams, llmCallOptions>>
callVars == <<calls, pointers>>
logVars == <<debug, consoleLog>>
vars == <<chunkVars, extVars, instVars, callVars, logVars>>

----------------------------------------------------------------------------
(* Bounds of the model *)

\* longest document, in characters, handed to buildChunks directly
MaxTextLen == 3
\* most tokens a tokenizer returns when buildChunks is called directly
MaxTokens == 2
\* largest window size tried when buildChunks is called directly
MaxChunkTokens == 2
\* largest overlap tried when buildChunks is called directly
MaxOverlap == 2
\* most tokens of a document handed to extract
MaxDocTokens == 2
\* largest concurrency option
MaxConcurrency == 2

Alphabet == {"a", "b"}

Min(a, b) == IF a <= b THEN a ELSE b
Max(a, b) == IF a >= b THEN a ELSE b

----------------------------------------------------------------------------
(* JSON values *)

Null == [kind |-> "null"]
Str(s) == [kind |-> "string", s |-> s]
Num(n) == [kind |-> "number", n |-> n]
Arr(items) == [kind |-> "array", items |-> items]
Obj(props) == [kind |-> "object", props |-> props]
EmptyObject == Obj([k \in {} |-> Null])

\* Object.is(allowed, value) for values that came out of JSON.parse: primitives
\* compare by value, a freshly parsed object or array is identical to nothing.
ObjectIs(allowed, value) ==
  /\ value.kind \notin {"object", "array"}
  /\ allowed = value

\* enumValues.some((allowed) => Object.is(allowed, value))
SomeIs(enumValues, value) ==
  \E k \in DOMAIN enumValues : ObjectIs(enumValues[k], value)

----------------------------------------------------------------------------
(* Schemas *)

NoItems == [type |-> "none", hasEnum |-> FALSE, enum |-> <<>>]
Items(type) == [type |-> type, hasEnum |-> FALSE, enum |-> <<>>]
ItemsEnum(type, enum) == [type |-> type, hasEnum |-> TRUE, enum |-> enum]
Field(type, items) ==
  [type |-> type, hasEnum |-> FALSE, enum |-> <<>>, items |-> items]
FieldEnum(type, enum, items) ==
  [type |-> type, hasEnum |-> TRUE, enum |-> enum, items |-> items]

\* opts.schema left out
NoSchema == [present |-> FALSE, properties |-> [k \in {} |-> NoItems]]

\* the schema of test/extract.test.ts
TestSchema ==
  [present |-> TRUE,
   properties |->
     [issue |-> Field("string", NoItems),
      next_moves |-> Field("array", Items("object")),
      status |-> FieldEnum("string", <<Str("open"), Str("closed")>>, NoItems)]]

\* a schema with enumerations on array fields and on their items
EnumSchema ==
  [present |-> TRUE,
   properties |->
     [tags |-> Field("array", ItemsEnum("string", <<Str("x"), Str("y")>>)),
      free |-> Field("array", ItemsEnum("string", <<>>)),
      objs |-> Field("array", ItemsEnum("object", <<Str("x")>>)),
      both |-> FieldEnum("array", <<Str("x")>>, ItemsEnum("string", <<Str("x")>>)),
      flag |-> FieldEnum("string", <<>>, NoItems)]]

Schemas == {NoSchema, TestSchema, EnumSchema}

FieldIds(s) == DOMAIN s.properties

----------------------------------------------------------------------------
(* What the completion call may answer *)

DoX == Obj([text |-> Str("Do X")])
DoY == Obj([text |-> Str("Do Y")])

\* an array one item longer than the prefix the reduction prompt keeps
\* (v.slice(0, 12))
LongArrayLen == 12 + 1

\* the mock's answer for CHUNK1, with values for the fields of EnumSchema too
ChunkObjA ==
  Obj([issue |-> Str("Issue A"),
       next_moves |-> Arr(<<DoX>>),
       status |-> Str("unknown"),
       tags |-> Arr(<<Str("x"), Str("z"), Str("y"), DoX>>),
       free |-> Arr([j \in 1..LongArrayLen |-> Str("z")]),
       objs |-> Arr(<<DoX, Str("q")>>),
       both |-> Arr(<<Str("x")>>),
       flag |-> Str("x"),
       _confidence_issue |-> Num(1)])

\* the mock's answer for CHUNK2
ChunkObjB ==
  Obj([issue |-> Str("Issue B"),
       next_moves |-> Arr(<<DoY>>),
       status |-> Str("closed"),
       tags |-> Arr(<<Str("z")>>),
       free |-> Arr(<<>>),
       both |-> Str("x"),
       flag |-> Null])

\* the mock's default answer
ChunkObjC ==
  Obj([issue |-> Null,
       next_moves |-> Arr(<<>>),
       status |-> Null,
       tags |-> Arr(<<Str("y"), Str("x"), Str("y")>>)])

\* the mock's answer to the reduction prompt
ReduceObjA ==
  Obj([issue |-> Str("Combined issue from chunks"),
       next_moves |-> Arr(<<DoX, DoY>>),
       status |-> Str("closed")])

\* an object that does not follow either schema
ReduceObjB ==
  Obj([status |-> Str("unknown"),
       tags |-> Arr(<<Str("z")>>),
       extra |-> Num(1)])

\* A response is "reject" (the call throws or its promise rejects),
\* "no_content" (a response without choices[0].message.content) or the text
\* of the content.
ChunkResponses ==
  {"reject", "no_content", "not json", "null", "7", "[]", "ObjA", "ObjB", "ObjC"}
ReduceResponses ==
  {"reject", "no_content", "not json", "null", "7", "[]", "{}", "RedA", "RedB"}

\* JSON.parse(text): [ok |-> FALSE] when it throws
JSONParse(str) ==
  CASE str = "null" -> [ok |-> TRUE, value |-> Null]
    [] str = "7" -> [ok |-> TRUE, value |-> Num(7)]
    [] str = "[]" -> [ok |-> TRUE, value |-> Arr(<<>>)]
    [] str = "{}" -> [ok |-> TRUE, value |-> EmptyObject]
    [] str = "ObjA" -> [ok |-> TRUE, value |-> ChunkObjA]
    [] str = "ObjB" -> [ok |-> TRUE, value |-> ChunkObjB]
    [] str = "ObjC" -> [ok |-> TRUE, value |-> ChunkObjC]
    [] str = "RedA" -> [ok |-> TRUE, value |-> ReduceObjA]
    [] str = "RedB" -> [ok |-> TRUE, value |-> ReduceObjB]
    [] OTHER -> [ok |-> FALSE, value |-> Null]

----------------------------------------------------------------------------
(* buildChunks *)

\* text.indexOf(tok, from), 0-based; -1 when tok does not occur at or after from
Occurs(txt, tok, k) ==
  /\ k + Len(tok) <= Len(txt)
  /\ \A j \in 1..Len(tok) : txt[k + j] = tok[j]

IndexOf(txt, tok, from) ==
  LET start == Min(Max(from, 0), Len(txt))
      hits == {k \in start..Len(txt) : Occurs(txt, tok, k)}
  IN IF hits = {} THEN 0 - 1
     ELSE CHOOSE k \in hits : \A h \in hits : k <= h

\* text.slice(startChar, endChar) for non-negative indices
Slice(txt, startChar, endChar) ==
  SubSeq(txt, Min(startChar, Len(txt)) + 1, Min(endChar, Len(txt)))

\* a bug: the end of a token that was not found is not clamped to the text
TokenPosition_EndNotClamped(txt, tok, idx) ==
  LET found == IndexOf(txt, tok, idx)
  IN IF found = 0 - 1
     THEN [start |-> idx, end |-> idx + Len(tok)]
     ELSE [start |-> found, end |-> found + Len(tok)]

\* the {start, end} pushed for tok with the search cursor at idx
TokenPosition(txt, tok, idx) ==
  LET found == IndexOf(txt, tok, idx)
  IN IF found = 0 - 1
     THEN [start |-> idx, end |-> Min(idx + Len(tok), Len(txt))]
     ELSE [start |-> found, end |-> found + Len(tok)]

\* the search cursor after tok
NextSearchIdx(txt, tok, idx) ==
  LET found == IndexOf(txt, tok, idx)
  IN IF found = 0 - 1 THEN idx + Len(tok) ELSE found + Len(tok)

\* a bug: every window holds one token
EndToken_OneToken(cursor, size, n) == Min(cursor + 1, n)

\* const endToken = Math.min(i + chunkTokens, tokens.length)
EndToken(cursor, size, n) == Min(cursor + size, n)

\* a bug: the overlap is added to the window size instead of subtracted
Step_OverlapAdded(size, overlap) == Max(1, size + overlap)

\* const step = Math.max(1, chunkTokens - overlapTokens)
Step(size, overlap) == Max(1, size - overlap)

\* const tokens = tokenizer(text); if (tokens.length === 0) return [];
Tokenize ==
  /\ bpc = "called"
  /\ IF Len(tokens) = 0
     THEN /\ bpc' = "returned"
          /\ UNCHANGED <<searchIdx, tokenCharPositions>>
     ELSE /\ bpc' = "positions"
          /\ searchIdx' = 0
          /\ tokenCharPositions' = <<>>
  /\ UNCHANGED <<text, tokens, chunkTokens, overlapTokens, i, chunks>>
  /\ UNCHANGED <<extVars, instVars, callVars, logVars>>

\* one iteration of: for (const tok of tokens)
PositionStep ==
  /\ bpc = "positions"
  /\ Len(tokenCharPositions) < Len(tokens)
  /\ LET tok == tokens[Len(tokenCharPositions) + 1]
     IN /\ tokenCharPositions' =
             Append(tokenCharPositions, TokenPosition(text, tok, searchIdx))
        /\ searchIdx' = NextSearchIdx(text, tok, searchIdx)
  /\ UNCHANGED <<text, tokens, chunkTokens, overlapTokens, i, chunks, bpc>>
  /\ UNCHANGED <<extVars, instVars, callVars, logVars>>

\* const chunks = []; let i = 0; let chunkId = 0;
StartChunks ==
  /\ bpc = "positions"
  /\ Len(tokenCharPositions) = Len(tokens)
  /\ bpc' = "loop"
  /\ i' = 0
  /\ chunks' = <<>>
  /\ UNCHANGED <<text, tokens, chunkTokens, overlapTokens, tokenCharPositions,
                 searchIdx>>
  /\ UNCHANGED <<extVars, instVars, callVars, logVars>>

\* one iteration of: while (i < tokens.length). Reading .end of
\* tokenCharPositions[endToken - 1] throws a TypeError when that index is
\* outside the array.
ChunkStep ==
  /\ bpc = "loop"
  /\ i < Len(tokens)
  /\ LET startToken == i
         endToken == EndToken(i, chunkTokens, Len(tokens))
     IN IF endToken - 1 < 0
        THEN /\ bpc' = "threw"
             /\ UNCHANGED <<i, chunks>>
        ELSE LET startChar == tokenCharPositions[startToken + 1].start
                 endChar == tokenCharPositions[endToken].end
             IN /\ chunks' = Append(chunks,
                     [id |-> Len(chunks),
                      text |-> Slice(text, startChar, endChar),
                      startChar |-> startChar,
                      endChar |-> endChar,
                      startToken |-> startToken,
                      endToken |-> endToken,
                      tokens |-> SubSeq(tokens, startToken + 1, endToken)])
                /\ i' = i + Step(chunkTokens, overlapTokens)
                /\ bpc' = "loop"
  /\ UNCHANGED <<text, tokens, chunkTokens, overlapTokens, tokenCharPositions,
                 searchIdx>>
  /\ UNCHANGED <<extVars, instVars, callVars, logVars>>

\* the loop ends: return chunks
ReturnChunks ==
  /\ bpc = "loop"
  /\ i >= Len(tokens)
  /\ bpc' = "returned"
  /\ UNCHANGED <<text, tokens, chunkTokens, overlapTokens, tokenCharPositions,
                 searchIdx, i, chunks>>
  /\ UNCHANGED <<extVars, instVars, callVars, logVars>>

----------------------------------------------------------------------------
(* Request parameters: a layer maps parameter names to values, written as *)
(* their JavaScript source text                                            *)

NoParams == [k \in {} |-> ""]

ParamConfig(defaults, client, overrides) ==
  [defaultRequestParams |-> defaults,
   clientParams |-> client,
   llmCallOptions |-> overrides]

\* the README's quickstart: createIntext({openai, clientParams}) and no
\* llmCallOptions
QuickstartParams ==
  ParamConfig(NoParams, [model |-> "gpt-4o", temperature |-> "0"], NoParams)

\* the quickstart with its commented lines switched on, and more keys
LayeredParams ==
  ParamConfig([stream |-> "true", temperature |-> "0.5", top_p |-> "1"],
              [model |-> "gpt-4o", temperature |-> "0", max_tokens |-> "100"],
              [temperature |-> "0.2"])

\* per-call overrides that name model, messages and response_format
OverridingParams ==
  ParamConfig([response_format |-> "text"],
              [model |-> "gpt-4o"],
              [model |-> "other", messages |-> "caller's messages",
               response_format |-> "null", stream |-> "true"])

ParamConfigs == {QuickstartParams, LayeredParams, OverridingParams}

\* { stream: false, ... }
LibraryDefaults == [stream |-> "false"]

\* a bug: the earlier layer wins
Merge_LeftWins(a, b) ==
  [k \in DOMAIN a \cup DOMAIN b |-> IF k \in DOMAIN a THEN a[k] ELSE b[k]]

\* { ...a, ...b }
Merge(a, b) ==
  [k \in DOMAIN a \cup DOMAIN b |-> IF k \in DOMAIN b THEN b[k] ELSE a[k]]

\* !value
Falsy(value) == value \in {"", "0", "false", "null", "undefined"}

\* the request body of a call whose message is prompt
RequestBody(defaults, client, overrides, prompt) ==
  LET packageDefaults == Merge(LibraryDefaults, defaults)
      spread == Merge(Merge(packageDefaults, client), overrides)
      requestBody == Merge(spread, [model |-> client.model, messages |-> prompt])
  IN IF "response_format" \notin DOMAIN requestBody
        \/ Falsy(requestBody["response_format"])
     THEN Merge(requestBody, [response_format |-> "json_object"])
     ELSE requestBody

\* messages: [{ role: "user", content: prompt }], by the kind of the request
PromptOf(kind) == IF kind = "chunk" THEN "chunk prompt" ELSE "reduction prompt"

----------------------------------------------------------------------------
(* extract: pure parts *)

\* data[k] = v.slice(0, 12)
ArrayPrefix == 12

\* rawRespStr: resp?.choices?.[0]?.message?.content ?? "", and "" in the catch
RawRespStr(resp) ==
  IF resp \in {"reject", "no_content"} THEN "" ELSE resp

\* a bug: a failed parse leaves parsed null instead of {}
ParseChunkResponse_NullOnFailure(raw) ==
  IF raw = "" THEN Null
  ELSE IF JSONParse(raw).ok THEN JSONParse(raw).value ELSE Null

\* let parsed = {}; try { parsed = rawRespStr ? JSON.parse(rawRespStr) : {} }
\* catch { parsed = {} }
ParseChunkResponse(raw) ==
  IF raw = "" THEN EmptyObject
  ELSE IF JSONParse(raw).ok THEN JSONParse(raw).value ELSE EmptyObject

\* Object.prototype.hasOwnProperty.call(parsed, fieldId), for a parsed value
\* that is not null. A number has no own property; the own properties of an
\* array are its indices and "length", which no field here is named.
HasOwn(parsed, fieldId) ==
  /\ parsed.kind = "object"
  /\ fieldId \in DOMAIN parsed.props

\* hasOwnProperty.call(null, fieldId) throws a TypeError in the first
\* iteration of the loop over Object.entries(schema.properties)
NormalizeThrows(s, parsed) ==
  /\ parsed.kind = "null"
  /\ FieldIds(s) # {}

\* a bug: the enumeration is not enforced
EnumCheck_Keep(field, value) == value

\* if (field.enum && value !== null && value !== undefined) { ... value = null }
EnumCheck(field, value) ==
  IF field.hasEnum /\ value # Null /\ ~SomeIs(field.enum, value)
  THEN Null
  ELSE value

\* a bug: an array holding a non-member is dropped whole
ItemFilter_WholeArray(field, value) ==
  IF /\ field.type = "array"
     /\ value.kind = "array"
     /\ field.items.hasEnum
     /\ Len(field.items.enum) # 0
     /\ field.items.type # "object"
     /\ field.items.type # "array"
     /\ \E k \in DOMAIN value.items : ~SomeIs(field.items.enum, value.items[k])
  THEN Null
  ELSE value

\* if (field.type === "array" && Array.isArray(value)) { ... value.filter(...) }
ItemFilter(field, value) ==
  IF /\ field.type = "array"
     /\ value.kind = "array"
     /\ field.items.hasEnum
     /\ Len(field.items.enum) # 0
     /\ field.items.type # "object"
     /\ field.items.type # "array"
  THEN Arr(SelectSeq(value.items, LAMBDA entry : SomeIs(field.items.enum, entry)))
  ELSE value

\* the body of the loop over the schema's fields
NormalizeField(field, parsed, fieldId) ==
  LET value == IF HasOwn(parsed, fieldId) THEN parsed.props[fieldId] ELSE Null
  IN ItemFilter(field, EnumCheck(field, value))

\* a bug: the keys of the parsed output that the schema does not name are kept
Normalize_KeepExtra(s, parsed) ==
  LET extra == IF parsed.kind = "object" THEN DOMAIN parsed.props ELSE {}
  IN [fieldId \in FieldIds(s) \cup extra |->
        IF fieldId \in FieldIds(s)
        THEN NormalizeField(s.properties[fieldId], parsed, fieldId)
        ELSE parsed.props[fieldId]]

\* const normalized = {}; for (const [fieldId, field] of
\* Object.entries(schema.properties)) { ... normalized[fieldId] = value ?? null }
Normalize(s, parsed) ==
  [fieldId \in FieldIds(s) |-> NormalizeField(s.properties[fieldId], parsed, fieldId)]

\* rawResults.sort((a, b) => a.chunkId - b.chunkId), a stable sort
RECURSIVE InsertByChunkId(_, _)
InsertByChunkId(sorted, r) ==
  IF sorted = <<>> THEN <<r>>
  ELSE IF Head(sorted).chunkId <= r.chunkId
       THEN <<Head(sorted)>> \o InsertByChunkId(Tail(sorted), r)
       ELSE <<r>> \o sorted

RECURSIVE InsertionSort(_)
InsertionSort(results) ==
  IF results = <<>> THEN <<>>
  ELSE InsertByChunkId(InsertionSort(SubSeq(results, 1, Len(results) - 1)),
                       results[Len(results)])

\* a bug: the results are left in completion order
SortByChunkId_Unsorted(results) == results

SortByChunkId(results) == InsertionSort(results)

\* the compacted data of one chunk result: non-null fields, arrays cut to a prefix
CompactData(parsed) ==
  LET keep == {k \in DOMAIN parsed : parsed[k] # Null}
  IN [k \in keep |->
        IF parsed[k].kind = "array"
        THEN Arr(SubSeq(parsed[k].items, 1, Min(ArrayPrefix, Len(parsed[k].items))))
        ELSE parsed[k]]

\* the chunk results as the reduction prompt lists them, with the schema
BuildFinalReductionPrompt(chunkResults, s) ==
  [schema |-> s,
   compacted |-> [k \in DOMAIN chunkResults |->
                    [id |-> chunkResults[k].chunkId,
                     data |-> CompactData(chunkResults[k].parsed)]]]

\* a bug: the number of chunks does not cap the number of workers
WorkerCount_IgnoreChunks(c, n) == Max(1, c)

\* const wcount = Math.max(1, Math.min(concurrency, chunks.length))
WorkerCount(c, n) == Max(1, Min(c, n))

\* let parsed = null; try { parsed = rawRespStr ? JSON.parse(rawRespStr) : null }
\* catch { parsed = null }
ReductionParsed(raw) ==
  IF raw = "" THEN Null
  ELSE IF JSONParse(raw).ok THEN JSONParse(raw).value ELSE Null

\* a bug: typeof parsed === "object" without the Array.isArray test
FinalJson_ArrayPasses(resp) ==
  IF resp = "reject" THEN EmptyObject
  ELSE LET raw == RawRespStr(resp)
           parsed == IF raw = "" THEN Null
                     ELSE IF JSONParse(raw).ok THEN JSONParse(raw).value ELSE Null
       IN IF parsed.kind \in {"object", "array"} THEN parsed ELSE EmptyObject

\* a bug: the final object is normalized against the schema like a chunk result
FinalJson_Normalized(resp) ==
  IF resp = "reject" THEN EmptyObject
  ELSE LET raw == RawRespStr(resp)
           parsed == IF raw = "" THEN Null
                     ELSE IF JSONParse(raw).ok THEN JSONParse(raw).value ELSE Null
       IN IF parsed.kind = "object" THEN Obj(Normalize(schema, parsed))
          ELSE EmptyObject

\* finalJson after the reduction call answered resp
FinalJson(resp) ==
  IF resp = "reject" THEN EmptyObject
  ELSE LET parsed == ReductionParsed(RawRespStr(resp))
       IN IF parsed.kind = "object" THEN parsed ELSE EmptyObject

\* a bug: every chunk is listed, whatever it holds for the field
SourceChunks_All(results, fieldId) ==
  [k \in DOMAIN results |-> results[k].chunkId]

\* provenance[fieldId] = { sourceChunks }
SourceChunks(results, fieldId) ==
  LET hits == SelectSeq(results, LAMBDA r : r.parsed[fieldId] # Null)
  IN [k \in DOMAIN hits |-> hits[k].chunkId]

\* a bug: a field that no chunk gave a value gets no provenance entry
Provenance_OmitEmpty(s, results) ==
  [fieldId \in {f \in FieldIds(s) : SourceChunks(results, f) # <<>>} |->
     [sourceChunks |-> SourceChunks(results, fieldId)]]

\* for (const fieldId of Object.keys(schema.properties)) provenance[fieldId] = ...
Provenance(s, results) ==
  [fieldId \in FieldIds(s) |-> [sourceChunks |-> SourceChunks(results, fieldId)]]

\* a bug: the metadata returns the compacted data of the reduction prompt
RawChunkResults_Compacted(results) ==
  [k \in DOMAIN results |->
     [results[k] EXCEPT !.parsed = CompactData(results[k].parsed)]]

\* rawChunkResults: rawResults
RawChunkResults(results) == results

NoResult ==
  [json |-> Null,
   metadata |-> [chunkCount |-> 0,
                 perFieldProvenance |-> <<>>,
                 rawChunkResults |-> <<>>]]

----------------------------------------------------------------------------
(* extract: steps *)

\* function debugLog(message, debugEnabled): the console after the call
DebugLog(log, message, debugEnabled) ==
  IF debugEnabled THEN Append(log, message) ELSE log

\* the debugLog calls between the reduction call and finalJson, each with
\* true as its second argument
ReductionLog(log, resp) ==
  IF resp = "reject"
  THEN DebugLog(log, "Error in final reduction", TRUE)
  ELSE LET received == DebugLog(log, "Received final reduction response", TRUE)
       IN IF ReductionParsed(RawRespStr(resp)).kind = "object"
          THEN received
          ELSE DebugLog(received, "Final reduction did not return a JSON object", TRUE)

NoneRunning == \A w \in DOMAIN workers : workers[w].pc # "running"

\* a bug: the cursor is read but not advanced
PointerAfterClaim_Stuck(p) == p

\* const idx = pointer++: the cursor after the claim
PointerAfterClaim(p) == p + 1

\* a bug: the barrier opens as soon as one worker has finished
AllWorkersDone_Any(ws) == \E w \in DOMAIN ws : ws[w].pc = "done"

\* await Promise.all(workers) resolves when every worker's promise has
AllWorkersDone(ws) == \A w \in DOMAIN ws : ws[w].pc = "done"

\* a bug: the schema check is missing
SchemaMissing_Never(s) == FALSE

\* if (!schema) throw new Error("schema is required")
SchemaMissing(s) == ~s.present

\* extract is called: the schema check, then buildChunks is called
ExtractStart ==
  /\ extPc = "idle"
  /\ IF SchemaMissing(schema)
     THEN /\ extPc' = "rejected"
          /\ extError' = "schema is required"
          /\ bpc' = bpc
     ELSE /\ extPc' = "chunking"
          /\ extError' = extError
          /\ bpc' = "called"
  /\ UNCHANGED <<text, tokens, chunkTokens, overlapTokens, tokenCharPositions,
                 searchIdx, i, chunks>>
  /\ UNCHANGED <<instVars, callVars, debug>>
  /\ consoleLog' = IF SchemaMissing(schema) THEN consoleLog
                   ELSE DebugLog(consoleLog, "Starting extraction", debug)
  /\ UNCHANGED <<schema, concurrency, pointer, wcount, workers, rawResults,
                 issued, served, completionOrder, reductionPrompt,
                 reduceServed, result>>

\* buildChunks threw: extract rejects with its error
ChunkingThrew ==
  /\ extPc = "chunking"
  /\ bpc = "threw"
  /\ extPc' = "rejected"
  /\ extError' = "TypeError"
  /\ UNCHANGED chunkVars
  /\ UNCHANGED <<instVars, callVars, debug>>
  /\ UNCHANGED consoleLog
  /\ UNCHANGED <<schema, concurrency, pointer, wcount, workers, rawResults,
                 issued, served, completionOrder, reductionPrompt,
                 reduceServed, result>>

\* buildChunks returned: rawResults = [], pointer = 0, wcount
AfterChunks ==
  /\ extPc = "chunking"
  /\ bpc = "returned"
  /\ extPc' = "spawning"
  /\ rawResults' = <<>>
  /\ pointer' = 0
  /\ wcount' = WorkerCount(concurrency, Len(chunks))
  /\ served' = [c \in 0..(Len(chunks) - 1) |-> "none"]
  /\ UNCHANGED chunkVars
  /\ UNCHANGED <<instVars, callVars, debug>>
  /\ consoleLog' = DebugLog(DebugLog(consoleLog, "Built chunks", debug),
                            "Spawning workers", debug)
  /\ UNCHANGED <<schema, concurrency, extError, workers, issued,
                 completionOrder, reductionPrompt, reduceServed, result>>

\* for (let i = 0; i < wcount; i++) workers.push(worker())
SpawnWorker ==
  /\ extPc = "spawning"
  /\ NoneRunning
  /\ Len(workers) < wcount
  /\ workers' = Append(workers, [pc |-> "running", idx |-> 0 - 1])
  /\ UNCHANGED chunkVars
  /\ UNCHANGED <<instVars, callVars, debug>>
  /\ UNCHANGED consoleLog
  /\ UNCHANGED <<schema, concurrency, extPc, extError, pointer, wcount,
                 rawResults, issued, served, completionOrder, reductionPrompt,
                 reduceServed, result>>

\* await Promise.all(workers)
AwaitAll ==
  /\ extPc = "spawning"
  /\ NoneRunning
  /\ Len(workers) = wcount
  /\ extPc' = "joining"
  /\ UNCHANGED chunkVars
  /\ UNCHANGED <<instVars, callVars, debug>>
  /\ UNCHANGED consoleLog
  /\ UNCHANGED <<schema, concurrency, extError, pointer, wcount, workers,
                 rawResults, issued, served, completionOrder, reductionPrompt,
                 reduceServed, result>>

\* top of the worker's loop: const idx = pointer++; break, or send the request
WorkerClaim(w) ==
  /\ workers[w].pc = "running"
  /\ pointer' = PointerAfterClaim(pointer)
  /\ IF pointer >= Len(chunks)
     THEN /\ workers' = [workers EXCEPT ![w].pc = "done"]
          /\ issued' = issued
     ELSE /\ workers' = [workers EXCEPT ![w] = [pc |-> "awaiting", idx |-> pointer]]
          /\ issued' = Append(issued,
                         [kind |-> "chunk",
                          chunkId |-> chunks[pointer + 1].id,
                          body |-> RequestBody(defaultRequestParams, clientParams,
                                               llmCallOptions, PromptOf("chunk"))])
  /\ UNCHANGED chunkVars
  /\ UNCHANGED <<instVars, callVars, debug>>
  /\ consoleLog' = IF pointer >= Len(chunks) THEN consoleLog
                   ELSE DebugLog(DebugLog(consoleLog, "Processing chunk", debug),
                                 "Sending request for chunk", debug)
  /\ UNCHANGED <<schema, concurrency, extPc, extError, wcount, rawResults,
                 served, completionOrder, reductionPrompt, reduceServed, result>>

\* the call of worker w completes with resp: parse, normalize, push; a
\* TypeError in the normalization rejects the worker's promise, and with it
\* Promise.all and extract, while the other workers go on
WorkerResume(w, resp) ==
  /\ extPc \in {"joining", "rejected"}
  /\ NoneRunning
  /\ workers[w].pc = "awaiting"
  /\ LET chunk == chunks[workers[w].idx + 1]
         rawRespStr == RawRespStr(resp)
         parsed == ParseChunkResponse(rawRespStr)
     IN /\ served' = [served EXCEPT ![workers[w].idx] = resp]
        /\ completionOrder' = Append(completionOrder, chunk.id)
        /\ IF NormalizeThrows(schema, parsed)
           THEN /\ workers' = [workers EXCEPT ![w].pc = "crashed"]
                /\ rawResults' = rawResults
                /\ extPc' = "rejected"
                /\ extError' = IF extPc = "joining" THEN "TypeError" ELSE extError
           ELSE /\ workers' = [workers EXCEPT ![w].pc = "running"]
                /\ rawResults' = Append(rawResults,
                      [chunkId |-> chunk.id,
                       parsed |-> Normalize(schema, parsed),
                       raw |-> rawRespStr])
                /\ UNCHANGED <<extPc, extError>>
  /\ UNCHANGED chunkVars
  /\ UNCHANGED <<instVars, callVars, debug>>
  /\ consoleLog' = DebugLog(DebugLog(consoleLog,
                                     IF resp = "reject"
                                     THEN "Error processing chunk"
                                     ELSE "Received response for chunk", debug),
                            "Parsed JSON for chunk", debug)
  /\ UNCHANGED <<schema, concurrency, pointer, wcount, issued, reductionPrompt,
                 reduceServed, result>>

\* Promise.all resolved: sort, build the reduction prompt, send the request
JoinAndReduce ==
  /\ extPc = "joining"
  /\ AllWorkersDone(workers)
  /\ rawResults' = SortByChunkId(rawResults)
  /\ reductionPrompt' = BuildFinalReductionPrompt(rawResults', schema)
  /\ issued' = Append(issued,
                 [kind |-> "reduce",
                  chunkId |-> 0 - 1,
                  body |-> RequestBody(defaultRequestParams, clientParams,
                                       llmCallOptions, PromptOf("reduce"))])
  /\ extPc' = "reducing"
  /\ UNCHANGED chunkVars
  /\ UNCHANGED <<instVars, callVars, debug>>
  /\ consoleLog' = DebugLog(DebugLog(consoleLog,
                                     "Sending final reduction request", TRUE),
                            "Final reduction prompt", TRUE)
  /\ UNCHANGED <<schema, concurrency, extError, pointer, wcount, workers,
                 served, completionOrder, reduceServed, result>>

\* the reduction call completes with resp: finalJson, provenance, return
ReduceResume(resp) ==
  /\ extPc = "reducing"
  /\ reduceServed' = resp
  /\ result' = [json |-> FinalJson(resp),
                metadata |-> [chunkCount |-> Len(chunks),
                              perFieldProvenance |-> Provenance(schema, rawResults),
                              rawChunkResults |-> RawChunkResults(rawResults)]]
  /\ extPc' = "returned"
  /\ UNCHANGED chunkVars
  /\ UNCHANGED <<instVars, callVars, debug>>
  /\ consoleLog' = DebugLog(ReductionLog(consoleLog, resp),
                            "Extraction complete", debug)
  /\ UNCHANGED <<schema, concurrency, extError, pointer, wcount, workers,
                 rawResults, issued, served, completionOrder, reductionPrompt>>

----------------------------------------------------------------------------
(* Specifications *)

ExtractIdle ==
  /\ extPc = "idle"
  /\ extError = "none"
  /\ pointer = 0
  /\ wcount = 0
  /\ workers = <<>>
  /\ rawResults = <<>>
  /\ issued = <<>>
  /\ served = <<>>
  /\ completionOrder = <<>>
  /\ reductionPrompt = [schema |-> NoSchema, compacted |-> <<>>]
  /\ reduceServed = "none"
  /\ result = NoResult

\* createIntext(params) and the llmCallOptions of the call
InstanceIs(config) ==
  /\ defaultRequestParams = config.defaultRequestParams
  /\ clientParams = config.clientParams
  /\ llmCallOptions = config.llmCallOptions

\* no second call on the instance
CallsIdle ==
  /\ calls = <<>>
  /\ pointers = <<>>

ChunkerIdle ==
  /\ tokenCharPositions = <<>>
  /\ searchIdx = 0
  /\ i = 0
  /\ chunks = <<>>

\* extract(text, opts) on a document of n one-character tokens
Init ==
  /\ schema \in Schemas
  /\ concurrency \in 0..MaxConcurrency
  /\ \E n \in 0..MaxDocTokens :
       /\ text = [j \in 1..n |-> "a"]
       /\ tokens = [j \in 1..n |-> <<"a">>]
  /\ chunkTokens \in 0..1
  /\ overlapTokens = 0
  /\ bpc = "idle"
  /\ ChunkerIdle
  /\ ExtractIdle
  /\ \E config \in ParamConfigs : InstanceIs(config)
  /\ CallsIdle
  /\ debug \in BOOLEAN
  /\ consoleLog = <<>>

Next ==
  \/ ExtractStart
  \/ Tokenize
  \/ PositionStep
  \/ StartChunks
  \/ ChunkStep
  \/ ReturnChunks
  \/ ChunkingThrew
  \/ AfterChunks
  \/ SpawnWorker
  \/ AwaitAll
  \/ \E w \in DOMAIN workers : WorkerClaim(w)
  \/ \E w \in DOMAIN workers : \E resp \in ChunkResponses : WorkerResume(w, resp)
  \/ JoinAndReduce
  \/ \E resp \in ReduceResponses : ReduceResume(resp)

Spec == Init /\ [][Next]_vars

\* The event loop runs every piece of code that is ready, and every
\* completion call eventually returns or fails: a step that can be taken is
\* eventually taken.
SpecLive == Init /\ [][Next]_vars /\ WF_vars(Next)

\* words over the alphabet of length lo..hi
Words(lo, hi) == UNION {[1..n -> Alphabet] : n \in lo..hi}

\* buildChunks(text, chunkTokens, overlapTokens, tokenizer) called directly,
\* with any tokenizer: the tokens need not occur in the text, and a token
\* may be the empty string
InitChunks ==
  /\ text \in Words(0, MaxTextLen)
  /\ tokens \in UNION {[1..n -> Words(0, 2)] : n \in 0..MaxTokens}
  /\ chunkTokens \in (0 - 1)..MaxChunkTokens
  /\ overlapTokens \in (0 - 1)..MaxOverlap
  /\ bpc = "called"
  /\ ChunkerIdle
  /\ schema = NoSchema
  /\ concurrency = 1
  /\ ExtractIdle
  /\ InstanceIs(QuickstartParams)
  /\ CallsIdle
  /\ debug = FALSE
  /\ consoleLog = <<>>

NextChunks ==
  \/ Tokenize
  \/ PositionStep
  \/ StartChunks
  \/ ChunkStep
  \/ ReturnChunks

SpecChunks == InitChunks /\ [][NextChunks]_vars

----------------------------------------------------------------------------
(* Two extract calls on one instance, interleaved. A call's synchronous     *)
(* pieces are its actions: the start up to the first await of every worker, *)
(* the continuation of one worker from its answer to its next await, the    *)
(* join, and the continuation after the reduction call.                     *)

Calls == {1, 2}

\* both calls use the schema of test/extract.test.ts
CallSchema == TestSchema

CallResponses == {"reject", "null", "ObjA"}
CallReduceResponses == {"RedA"}

\* a bug: the cursor is a variable of the instance, shared by its calls
PointerOf_Shared(c) == 1

\* let pointer = 0 is declared inside extract: every call has its own cursor
PointerOf(c) == c

\* a call whose document gave n chunks, not started yet
IdleCall(n, c) ==
  [pc |-> "idle", chunkCount |-> n, concurrency |-> c, wcount |-> 0,
   workers |-> <<>>, rawResults |-> <<>>,
   served |-> [k \in 0..(n - 1) |-> "none"], json |-> EmptyObject]

\* the worker that claimed index idx of n chunks
WorkerAt(idx, n) ==
  IF idx >= n THEN [pc |-> "done", idx |-> 0 - 1]
  ELSE [pc |-> "awaiting", idx |-> idx]

\* extract is called: rawResults = [], pointer = 0, and each of the wcount
\* workers runs to its first await, claiming the indices 0, 1, ... in turn
CallStart(c) ==
  /\ calls[c].pc = "idle"
  /\ LET n == calls[c].chunkCount
         wc == WorkerCount(calls[c].concurrency, n)
     IN /\ calls' = [calls EXCEPT ![c] =
                       [@ EXCEPT !.pc = "joining",
                                 !.wcount = wc,
                                 !.rawResults = <<>>,
                                 !.workers = [w \in 1..wc |-> WorkerAt(w - 1, n)]]]
        /\ pointers' = [pointers EXCEPT ![PointerOf(c)] = wc]
  /\ UNCHANGED <<chunkVars, extVars, instVars, logVars>>

\* the call of worker w of call c completes with resp: parse, normalize,
\* push, and claim the next index; a TypeError ends the worker and rejects
\* the call
CallResume(c, w, resp) ==
  /\ calls[c].pc \in {"joining", "rejected"}
  /\ w \in DOMAIN calls[c].workers
  /\ calls[c].workers[w].pc = "awaiting"
  /\ LET idx == calls[c].workers[w].idx
         rawRespStr == RawRespStr(resp)
         parsed == ParseChunkResponse(rawRespStr)
         p == pointers[PointerOf(c)]
     IN IF NormalizeThrows(CallSchema, parsed)
        THEN /\ calls' = [calls EXCEPT ![c] =
                            [@ EXCEPT !.pc = "rejected",
                                      !.workers[w].pc = "crashed",
                                      !.served[idx] = resp]]
             /\ pointers' = pointers
        ELSE /\ calls' = [calls EXCEPT ![c] =
                            [@ EXCEPT !.served[idx] = resp,
                                      !.rawResults = Append(@,
                                         [chunkId |-> idx,
                                          parsed |-> Normalize(CallSchema, parsed),
                                          raw |-> rawRespStr]),
                                      !.workers[w] = WorkerAt(p, calls[c].chunkCount)]]
             /\ pointers' = [pointers EXCEPT ![PointerOf(c)] = PointerAfterClaim(p)]
  /\ UNCHANGED <<chunkVars, extVars, instVars, logVars>>

\* Promise.all of call c resolved: sort, send the reduction request
CallJoin(c) ==
  /\ calls[c].pc = "joining"
  /\ AllWorkersDone(calls[c].workers)
  /\ calls' = [calls EXCEPT ![c] =
                 [@ EXCEPT !.pc = "reducing",
                           !.rawResults = SortByChunkId(@)]]
  /\ UNCHANGED pointers
  /\ UNCHANGED <<chunkVars, extVars, instVars, logVars>>

\* the reduction call of call c completes with resp: the call returns
CallReduceResume(c, resp) ==
  /\ calls[c].pc = "reducing"
  /\ calls' = [calls EXCEPT ![c] =
                 [@ EXCEPT !.pc = "returned", !.json = FinalJson(resp)]]
  /\ UNCHANGED pointers
  /\ UNCHANGED <<chunkVars, extVars, instVars, logVars>>

\* one instance, two documents of one-character tokens with chunkTokens = 1
InitTwoCalls ==
  /\ text = <<>>
  /\ tokens = <<>>
  /\ chunkTokens = 1
  /\ overlapTokens = 0
  /\ bpc = "idle"
  /\ ChunkerIdle
  /\ schema = CallSchema
  /\ concurrency = 1
  /\ ExtractIdle
  /\ InstanceIs(QuickstartParams)
  /\ \E n1, n2 \in 0..MaxDocTokens :
       \E c1, c2 \in 1..MaxConcurrency :
         calls = <<IdleCall(n1, c1), IdleCall(n2, c2)>>
  /\ pointers = [c \in Calls |-> 0]
  /\ debug = FALSE
  /\ consoleLog = <<>>

NextTwoCalls ==
  \/ \E c \in Calls : CallStart(c)
  \/ \E c \in Calls : \E w \in 1..MaxConcurrency : \E resp \in CallResponses :
       CallResume(c, w, resp)
  \/ \E c \in Calls : CallJoin(c)
  \/ \E c \in Calls : \E resp \in CallReduceResponses : CallReduceResume(c, resp)

SpecTwoCalls == InitTwoCalls /\ [][NextTwoCalls]_vars

----------------------------------------------------------------------------
(* Properties *)

Ascending(ids) ==
  \A a, b \in DOMAIN ids : a < b => ids[a] < ids[b]

ChunkIds(results) == [k \in DOMAIN results |-> results[k].chunkId]

Range(seq) == {seq[k] : k \in DOMAIN seq}

\* value is one of the enumeration's entries
InEnum(enumValues, value) == \E j \in DOMAIN enumValues : enumValues[j] = value

\* the value the completion call gave field f of chunk c, when it answered
\* with an object that has the field
ServedHas(c, f) ==
  /\ JSONParse(served[c]).ok
  /\ JSONParse(served[c]).value.kind = "object"
  /\ f \in DOMAIN JSONParse(served[c]).value.props

ServedValue(c, f) == JSONParse(served[c]).value.props[f]

\* C1: whatever the concurrency and the completion order, the chunk results
\* listed in the reduction prompt and those returned in the metadata are in
\* strictly ascending chunk-id order.
C1_SortedByChunkId ==
  /\ extPc \in {"reducing", "returned"} =>
       /\ Ascending([k \in DOMAIN reductionPrompt.compacted |->
                       reductionPrompt.compacted[k].id])
       /\ Len(reductionPrompt.compacted) = Len(completionOrder)
  /\ extPc = "returned" =>
       /\ Ascending(ChunkIds(result.metadata.rawChunkResults))
       /\ Len(result.metadata.rawChunkResults) = Len(completionOrder)

\* two workers, the call for chunk 1 completed before the call for chunk 0
C1_Witness ==
  /\ extPc = "returned"
  /\ concurrency >= 2
  /\ completionOrder = <<1, 0>>
  /\ ChunkIds(result.metadata.rawChunkResults) = <<0, 1>>

FailedResponses == {"reject", "no_content", "not json"}

\* C2: a chunk whose call throws, rejects or returns unparsable text gets a
\* result with every schema field null; its worker goes on, the run is not
\* aborted by it, and at the join every chunk has its result.
C2_FailedChunkAllNull ==
  /\ \A c \in DOMAIN served :
       served[c] \in FailedResponses =>
         \E k \in DOMAIN rawResults :
           /\ rawResults[k].chunkId = c
           /\ \A f \in FieldIds(schema) : rawResults[k].parsed[f] = Null
  /\ \A w \in DOMAIN workers :
       workers[w].pc = "crashed" => served[workers[w].idx] \notin FailedResponses
  /\ (extPc = "rejected" /\ bpc = "returned") =>
       \E c \in DOMAIN served : served[c] \notin FailedResponses \cup {"none"}
  /\ extPc \in {"reducing", "returned"} =>
       \A c \in 0..(Len(chunks) - 1) : c \in Range(ChunkIds(rawResults))

\* chunk 0 failed, chunk 1 was still extracted, extract returned
C2_Witness ==
  /\ extPc = "returned"
  /\ schema = TestSchema
  /\ Len(chunks) = 2
  /\ served[0] = "reject"
  /\ served[1] = "ObjB"
  /\ result.metadata.rawChunkResults[1].parsed =
       [issue |-> Null, next_moves |-> Null, status |-> Null]
  /\ result.metadata.rawChunkResults[2].parsed.issue = Str("Issue B")

\* C3: in every chunk result, a field that declares an enumeration holds null
\* or a member of it; a parsed value outside the enumeration is stored as null.
C3_EnumOrNull ==
  \A k \in DOMAIN rawResults : \A f \in FieldIds(schema) :
    schema.properties[f].hasEnum =>
      /\ \/ rawResults[k].parsed[f] = Null
         \/ InEnum(schema.properties[f].enum, rawResults[k].parsed[f])
      /\ ( /\ ServedHas(rawResults[k].chunkId, f)
           /\ ~InEnum(schema.properties[f].enum,
                      ServedValue(rawResults[k].chunkId, f)) )
         => rawResults[k].parsed[f] = Null

\* status "unknown" was stored as null, status "closed" was kept
C3_Witness ==
  /\ extPc = "returned"
  /\ schema = TestSchema
  /\ Len(chunks) = 2
  /\ served[0] = "ObjA"
  /\ served[1] = "ObjB"
  /\ rawResults[1].parsed.status = Null
  /\ rawResults[2].parsed.status = Str("closed")

\* the parsed array with the items outside the enumeration removed
MembersOf(enumValues, value) ==
  Arr(SelectSeq(value.items, LAMBDA entry : InEnum(enumValues, entry)))

\* field f is an array field whose items (neither object nor array) declare
\* an enumeration, and the completion call gave it an array for chunk c
ItemEnumCase(c, f) ==
  /\ schema.properties[f].type = "array"
  /\ schema.properties[f].items.hasEnum
  /\ schema.properties[f].items.type \notin {"object", "array"}
  /\ ServedHas(c, f)
  /\ ServedValue(c, f).kind = "array"

\* C4 as claimed: for an array field whose item type declares an enumeration,
\* empty ones included, the stored value is the parsed array without the
\* non-members, never null.
C4_FilteredForEveryItemEnum ==
  \A k \in DOMAIN rawResults : \A f \in FieldIds(schema) :
    ItemEnumCase(rawResults[k].chunkId, f) =>
      rawResults[k].parsed[f] =
        MembersOf(schema.properties[f].items.enum,
                  ServedValue(rawResults[k].chunkId, f))

\* C4: for an array field that declares no enumeration of its own and whose
\* item type declares a non-empty enumeration, the stored value is the parsed
\* array with exactly the non-members removed, in order, and is never null;
\* with an empty item enumeration the array is stored unfiltered.
C4_FilteredForNonEmptyItemEnum ==
  \A k \in DOMAIN rawResults : \A f \in FieldIds(schema) :
    (ItemEnumCase(rawResults[k].chunkId, f) /\ ~schema.properties[f].hasEnum) =>
      IF Len(schema.properties[f].items.enum) > 0
      THEN rawResults[k].parsed[f] =
             MembersOf(schema.properties[f].items.enum,
                       ServedValue(rawResults[k].chunkId, f))
      ELSE rawResults[k].parsed[f] = ServedValue(rawResults[k].chunkId, f)

\* "z" and an object were removed from one array, the other became empty
C4_Witness ==
  /\ extPc = "returned"
  /\ schema = EnumSchema
  /\ Len(chunks) = 2
  /\ served[0] = "ObjA"
  /\ served[1] = "ObjB"
  /\ rawResults[1].parsed.tags = Arr(<<Str("x"), Str("y")>>)
  /\ rawResults[2].parsed.tags = Arr(<<>>)

\* C5: for every schema field the provenance list is exactly the ascending
\* list of the ids of the chunks whose result holds a non-null value for it.
C5_ProvenanceExact ==
  extPc = "returned" =>
    /\ DOMAIN result.metadata.perFieldProvenance = FieldIds(schema)
    /\ \A f \in FieldIds(schema) :
         LET ids == result.metadata.perFieldProvenance[f].sourceChunks
             res == result.metadata.rawChunkResults
         IN /\ Ascending(ids)
            /\ Range(ids) = {res[k].chunkId :
                               k \in {j \in DOMAIN res : res[j].parsed[f] # Null}}

\* both chunks gave an issue, only the second a status in the enumeration
C5_Witness ==
  /\ extPc = "returned"
  /\ schema = TestSchema
  /\ completionOrder = <<1, 0>>
  /\ result.metadata.perFieldProvenance.issue.sourceChunks = <<0, 1>>
  /\ result.metadata.perFieldProvenance.status.sourceChunks = <<1>>

\* the reduction answers that do not parse to an object
FailedReductions == {"reject", "no_content", "not json", "null", "7", "[]"}

\* C6: when the reduction call fails or its answer is no JSON object, extract
\* returns normally with json = {} and with the chunk results (one per chunk)
\* and the provenance map in the metadata.
C6_ReductionFallback ==
  reduceServed \in FailedReductions =>
    /\ extPc = "returned"
    /\ extError = "none"
    /\ result.json = EmptyObject
    /\ result.metadata.chunkCount = Len(chunks)
    /\ ChunkIds(result.metadata.rawChunkResults) = [k \in 1..Len(chunks) |-> k - 1]
    /\ DOMAIN result.metadata.perFieldProvenance = FieldIds(schema)
    /\ \A f \in FieldIds(schema) :
         \A k \in DOMAIN result.metadata.rawChunkResults :
           result.metadata.rawChunkResults[k].parsed[f] # Null =>
             (k - 1) \in Range(result.metadata.perFieldProvenance[f].sourceChunks)

\* the reduction answered with an array; two chunk results and provenance remain
C6_Witness ==
  /\ extPc = "returned"
  /\ reduceServed = "[]"
  /\ schema = TestSchema
  /\ Len(result.metadata.rawChunkResults) = 2
  /\ result.metadata.perFieldProvenance.issue.sourceChunks = <<0, 1>>
  /\ result.json = EmptyObject

\* C7: when the reduction answer parses to an object, json is exactly that
\* object: nothing is merged, normalized, filtered or null-filled.
C7_FinalObjectVerbatim ==
  extPc = "returned" =>
    /\ reduceServed = "RedA" => result.json = ReduceObjA
    /\ reduceServed = "RedB" => result.json = ReduceObjB
    /\ reduceServed = "{}" => result.json = EmptyObject

\* an object with a status outside the enumeration, an unknown key and no
\* issue came back as it was
C7_Witness ==
  /\ extPc = "returned"
  /\ schema = TestSchema
  /\ reduceServed = "RedB"
  /\ result.json.props.status = Str("unknown")
  /\ DOMAIN result.json.props = {"status", "tags", "extra"}

\* C8: without a schema extract fails with the configuration error in its
\* first step: buildChunks is not called, no worker is started, no request is
\* sent.
C8_NoSchemaNoCall ==
  ~schema.present =>
    /\ extPc \in {"idle", "rejected"}
    /\ extPc = "rejected" => extError = "schema is required"
    /\ bpc = "idle"
    /\ workers = <<>>
    /\ issued = <<>>

C8_Witness ==
  /\ ~schema.present
  /\ extPc = "rejected"
  /\ extError = "schema is required"
  /\ Len(tokens) > 0

\* workers inside their loop, and per-chunk calls in flight
Running ==
  Cardinality({w \in DOMAIN workers : workers[w].pc \in {"running", "awaiting"}})

InFlight ==
  Cardinality({w \in DOMAIN workers : workers[w].pc = "awaiting"})

\* C9 as claimed: at most min(c, chunk count) workers run at any moment, c
\* being the concurrency with values below 1 read as 1.
C9_WorkersAtMostMin ==
  extPc \in {"spawning", "joining", "rejected", "reducing", "returned"} =>
    /\ Running <= Min(Max(1, concurrency), Len(chunks))
    /\ InFlight <= Min(Max(1, concurrency), Len(chunks))

\* C9: at most max(1, min(concurrency, chunk count)) workers run at any
\* moment (one worker is started even when there is no chunk), and at most
\* min(max(1, concurrency), chunk count) per-chunk calls are in flight.
C9_WorkersAtMostCount ==
  extPc \in {"spawning", "joining", "rejected", "reducing", "returned"} =>
    /\ Running <= Max(1, Min(concurrency, Len(chunks)))
    /\ InFlight <= Min(Max(1, concurrency), Len(chunks))

\* two calls in flight at once
C9_Witness ==
  /\ concurrency = 2
  /\ Len(chunks) = 2
  /\ Running = 2
  /\ InFlight = 2

\* C10: with overlapTokens >= chunkTokens and at least one token, buildChunks
\* ends normally, the ids it gives increase strictly and its cursor advances
\* by at least one token per window.
C10_DegenerateOverlapTerminates ==
  (overlapTokens >= chunkTokens /\ Len(tokens) > 0) =>
    /\ bpc # "threw"
    /\ \A k \in DOMAIN chunks :
         /\ chunks[k].id = k - 1
         /\ chunks[k].startToken >= k - 1
    /\ bpc = "loop" => i >= Len(chunks)

\* every token was found by indexOf (the tokenizer is faithful to the text)
AllFound ==
  \A k \in DOMAIN tokenCharPositions :
    Occurs(text, tokens[k], tokenCharPositions[k].start)

\* C11: for every document and every tokenizer output, tokens that do not
\* occur in the text included, every window has
\* 0 <= startChar <= endChar <= length of the document.
C11_SpanWithinDocument ==
  \A k \in DOMAIN chunks :
    /\ 0 <= chunks[k].startChar
    /\ chunks[k].startChar <= chunks[k].endChar
    /\ chunks[k].endChar <= Len(text)

\* C12 as claimed, here even for a tokenizer whose tokens all occur in the
\* text: with chunkTokens >= 1 and overlapTokens >= 0, startChar of window
\* k+1 is not greater than endChar of window k.
C12_NoCharGap ==
  (chunkTokens >= 1 /\ overlapTokens >= 0 /\ AllFound) =>
    \A k \in DOMAIN chunks :
      k + 1 \in DOMAIN chunks => chunks[k + 1].startChar <= chunks[k].endChar

\* C12: with chunkTokens >= 1 and overlapTokens >= 0 the windows cover the
\* token sequence without a gap: window k+1 starts at or before the token
\* that follows the last token of window k, the first window starts at the
\* first token and the last window ends at the last token. Their character
\* ranges can still be apart, by the characters the tokenizer skipped
\* between two tokens.
C12_NoTokenGap ==
  (chunkTokens >= 1 /\ overlapTokens >= 0) =>
    /\ \A k \in DOMAIN chunks :
         k + 1 \in DOMAIN chunks =>
           chunks[k + 1].startToken <= chunks[k].endToken
    /\ Len(chunks) > 0 => chunks[1].startToken = 0
    /\ (bpc = "returned" /\ Len(tokens) > 0) =>
         /\ Len(chunks) > 0
         /\ chunks[Len(chunks)].endToken = Len(tokens)

\* "aba" read as the tokens "a", "a": two windows with the "b" between them
C12_Witness ==
  /\ bpc = "returned"
  /\ text = <<"a", "b", "a">>
  /\ tokens = <<<<"a">>, <<"a">>>>
  /\ chunkTokens = 1
  /\ overlapTokens = 0
  /\ Len(chunks) = 2
  /\ chunks[1].endChar = 1
  /\ chunks[2].startChar = 2
  /\ chunks[2].startToken = chunks[1].endToken

\* C13: for every non-empty token sequence, every chunkTokens >= 1 and every
\* overlapTokens, negative ones included, every token index is in a window.
C13_EveryTokenInAWindow ==
  (bpc = "returned" /\ chunkTokens >= 1 /\ Len(tokens) > 0) =>
    \A t \in 0..(Len(tokens) - 1) :
      \E k \in DOMAIN chunks :
        chunks[k].startToken <= t /\ t < chunks[k].endToken

\* C14: the keys of every normalized chunk result are exactly the schema's
\* top-level field names: a field the parsed output lacks is there with
\* null, and a key of the parsed output that is no schema field is not.
C14_KeysAreSchemaFields ==
  /\ \A k \in DOMAIN rawResults :
       /\ DOMAIN rawResults[k].parsed = FieldIds(schema)
       /\ \A f \in FieldIds(schema) :
            ~ServedHas(rawResults[k].chunkId, f) => rawResults[k].parsed[f] = Null
  /\ \A k \in DOMAIN result.metadata.rawChunkResults :
       DOMAIN result.metadata.rawChunkResults[k].parsed = FieldIds(schema)

\* the default answer under EnumSchema: "issue" is dropped, "free" is null
C14_Witness ==
  /\ schema = EnumSchema
  /\ \E k \in DOMAIN rawResults :
       /\ served[rawResults[k].chunkId] = "ObjC"
       /\ ServedHas(rawResults[k].chunkId, "issue")
       /\ "issue" \notin DOMAIN rawResults[k].parsed
       /\ ~ServedHas(rawResults[k].chunkId, "free")
       /\ rawResults[k].parsed["free"] = Null
       /\ rawResults[k].parsed["tags"] # Null

\* the per-chunk requests sent so far
ChunkRequests == SelectSeq(issued, LAMBDA r : r.kind = "chunk")

NoDuplicates(ids) == \A a, b \in DOMAIN ids : a # b => ids[a] # ids[b]

\* Promise.all(workers) has resolved
Joined ==
  \/ extPc \in {"reducing", "returned"}
  \/ extPc = "joining" /\ AllWorkersDone(workers)

\* C18: under every interleaving each chunk index is claimed by at most one
\* worker, so no chunk gets two requests or two results; once all workers
\* have finished, every chunk id has exactly one request and one result and
\* the number of results is the chunk count.
C18_ClaimedExactlyOnce ==
  /\ NoDuplicates(ChunkIds(ChunkRequests))
  /\ NoDuplicates(ChunkIds(rawResults))
  /\ \A a, b \in DOMAIN workers :
       (a # b /\ workers[a].pc = "awaiting" /\ workers[b].pc = "awaiting")
         => workers[a].idx # workers[b].idx
  /\ \A k \in DOMAIN ChunkRequests :
       \E c \in DOMAIN chunks : chunks[c].id = ChunkRequests[k].chunkId
  /\ Joined =>
       /\ Range(ChunkIds(ChunkRequests)) = {chunks[c].id : c \in DOMAIN chunks}
       /\ Range(ChunkIds(rawResults)) = {chunks[c].id : c \in DOMAIN chunks}
       /\ Len(rawResults) = Len(chunks)
       /\ Len(ChunkRequests) = Len(chunks)
  /\ extPc = "returned" => result.metadata.chunkCount = Len(rawResults)

\* two workers, two chunks, the second answered first, and the join reached
C18_Witness ==
  /\ extPc = "joining"
  /\ AllWorkersDone(workers)
  /\ Len(workers) = 2
  /\ Len(chunks) = 2
  /\ completionOrder = <<1, 0>>
  /\ Len(rawResults) = 2

\* C19: the reduction request is sent only after every worker has finished:
\* from then on every chunk has its result, no per-chunk call is in flight,
\* and the reduction request is the last request ever sent.
C19_ReductionAfterJoin ==
  /\ \A k \in DOMAIN issued : issued[k].kind = "reduce" => k = Len(issued)
  /\ extPc \in {"reducing", "returned"} =>
       /\ issued # <<>>
       /\ issued[Len(issued)].kind = "reduce"
       /\ \A w \in DOMAIN workers : workers[w].pc = "done"
       /\ Len(workers) = wcount
       /\ InFlight = 0
       /\ \A c \in DOMAIN chunks :
            \E k \in DOMAIN rawResults : rawResults[k].chunkId = chunks[c].id
       /\ \A c \in DOMAIN served : served[c] # "none"

\* the reduction request is out, after the requests of two chunks
C19_Witness ==
  /\ extPc = "reducing"
  /\ Len(chunks) = 2
  /\ Len(workers) = 2
  /\ Len(issued) = 3
  /\ issued[1].kind = "chunk"
  /\ issued[2].kind = "chunk"
  /\ issued[3].kind = "reduce"

\* the run is over: extract returned, or it rejected and no worker is left
Quiescent ==
  \/ extPc = "returned"
  \/ /\ extPc = "rejected"
     /\ \A w \in DOMAIN workers : workers[w].pc \in {"done", "crashed"}

\* C20: in every run that passes the schema check and gets its chunks, when
\* the run is over exactly chunk count + 1 completion calls have been issued,
\* whatever the calls answered.
C20_CallsAreChunksPlusOne ==
  (schema.present /\ bpc = "returned" /\ Quiescent) =>
    Len(issued) = Len(chunks) + 1

\* the keys some layer defines; the library's own layer defines "stream"
LayerKeys ==
  DOMAIN LibraryDefaults \cup DOMAIN defaultRequestParams
    \cup DOMAIN clientParams \cup DOMAIN llmCallOptions

\* the value of key k in the highest layer that defines it: library defaults
\* < per-instance clientParams < per-call llmCallOptions
HighestLayerValue(k) ==
  IF k \in DOMAIN llmCallOptions THEN llmCallOptions[k]
  ELSE IF k \in DOMAIN clientParams THEN clientParams[k]
  ELSE IF k \in DOMAIN defaultRequestParams THEN defaultRequestParams[k]
  ELSE LibraryDefaults[k]

EnforcedKeys == {"model", "messages", "response_format"}

AloneResult(c, idx) ==
  LET rawRespStr == RawRespStr(calls[c].served[idx])
  IN [chunkId |-> idx,
      parsed |-> Normalize(CallSchema, ParseChunkResponse(rawRespStr)),
      raw |-> rawRespStr]

\* C17: two extract calls on one instance, interleaved in any way, share
\* neither cursor nor results: a call's cursor only counts its own claims,
\* every result it holds is for one of its own chunks and made from the
\* answer to its own request, and after its join it holds exactly one result
\* per chunk of its own document, in id order, as if it had run alone.
C17_CallsShareNothing ==
  \A c \in Calls :
    LET call == calls[c]
    IN /\ NoDuplicates(ChunkIds(call.rawResults))
       /\ \A k \in DOMAIN call.rawResults :
            /\ call.rawResults[k].chunkId \in 0..(call.chunkCount - 1)
            /\ call.rawResults[k] = AloneResult(c, call.rawResults[k].chunkId)
       /\ call.pc = "idle" => pointers[c] = 0
       /\ call.pc # "idle" =>
            /\ call.wcount <= pointers[c]
            /\ pointers[c] <= call.chunkCount + call.wcount
            /\ pointers[c] =
                 call.wcount + Cardinality({idx \in DOMAIN call.served :
                                             /\ call.served[idx] # "none"
                                             /\ call.served[idx] # "null"})
       /\ call.pc \in {"reducing", "returned"} =>
            /\ Len(call.rawResults) = call.chunkCount
            /\ \A k \in DOMAIN call.rawResults :
                 call.rawResults[k] = AloneResult(c, k - 1)

\* both calls are under way at once, each holding one of its two results:
\* the first with one worker, the second with two
C17_Witness ==
  /\ calls[1].chunkCount = 2
  /\ calls[2].chunkCount = 2
  /\ calls[1].pc = "joining"
  /\ calls[2].pc = "joining"
  /\ calls[1].wcount = 1
  /\ calls[2].wcount = 2
  /\ Len(calls[1].rawResults) = 1
  /\ Len(calls[2].rawResults) = 1
  /\ calls[1].served[0] = "ObjA"
  /\ calls[2].served[1] = "reject"
  /\ calls[2].served[0] = "none"
  /\ pointers[1] = 2
  /\ pointers[2] = 3

\* C21: whatever text a per-chunk call answers, JSON null, a number or an
\* array included, no worker fails in the normalization: every answered
\* chunk has its result and extract does not reject because of an answer.
C21_NormalizationNeverThrows ==
  /\ \A w \in DOMAIN workers : workers[w].pc # "crashed"
  /\ \A c \in DOMAIN served :
       served[c] # "none" =>
         \E k \in DOMAIN rawResults : rawResults[k].chunkId = c
  /\ (schema.present /\ bpc = "returned") => extPc # "rejected"

\* ceil(n / s) for s >= 1
CeilDiv(n, s) == (n + s - 1) \div s

\* C22: with chunkTokens >= 1 the chunk at position k (from 0) has id k and
\* holds exactly the tokens [k*step, min(k*step + chunkTokens, n)), where
\* step = max(1, chunkTokens - overlapTokens) and n is the number of tokens;
\* buildChunks returns exactly ceil(n / step) chunks: none for no token, at
\* least one otherwise.
C22_WindowCountAndContents ==
  chunkTokens >= 1 =>
    LET n == Len(tokens)
        step == Max(1, chunkTokens - overlapTokens)
    IN /\ \A k \in DOMAIN chunks :
            LET from == (k - 1) * step
                to == Min(from + chunkTokens, n)
            IN /\ chunks[k].id = k - 1
               /\ chunks[k].startToken = from
               /\ chunks[k].endToken = to
               /\ chunks[k].tokens = [j \in 1..(to - from) |-> tokens[from + j]]
       /\ bpc = "returned" =>
            /\ Len(chunks) = CeilDiv(n, step)
            /\ n = 0 => chunks = <<>>
            /\ n >= 1 => Len(chunks) >= 1

\* two tokens, windows of two with an overlap of one: ceil(2 / 1) = 2
\* windows, the second clipped to the last token
C22_Witness ==
  /\ bpc = "returned"
  /\ Len(tokens) = 2
  /\ chunkTokens = 2
  /\ overlapTokens = 1
  /\ Len(chunks) = 2
  /\ chunks[2].id = 1
  /\ chunks[2].startToken = 1
  /\ chunks[2].endToken = 2
  /\ chunks[2].tokens = <<tokens[2]>>

\* C26: with chunkTokens >= 1 and overlapTokens >= 0 every chunk holds a
\* token index that no earlier chunk holds.
C26_NoRedundantWindow ==
  (chunkTokens >= 1 /\ overlapTokens >= 0) =>
    \A k \in DOMAIN chunks :
      \E t \in chunks[k].startToken..(chunks[k].endToken - 1) :
        \A e \in 1..(k - 1) :
          ~(chunks[e].startToken <= t /\ t < chunks[e].endToken)

\* token k was not found by indexOf: it does not occur at the start it got
NotFound(k) == ~Occurs(text, tokens[k], tokenCharPositions[k].start)

\* the search cursor before and after token k, recomputed from the offsets
CursorAfter(k) ==
  IF NotFound(k)
  THEN tokenCharPositions[k].start + Len(tokens[k])
  ELSE tokenCharPositions[k].end

CursorBefore(k) == IF k = 1 THEN 0 ELSE CursorAfter(k - 1)

NoEmptyToken == \A k \in DOMAIN tokens : tokens[k] # <<>>

\* C24 as claimed: a token that is not found gets start = the cursor and
\* end = the cursor plus its length, and the cursor then equals that end;
\* the cursor never moves backward and the starts are non-decreasing.
C24_FallbackEndIsCursor ==
  \A k \in DOMAIN tokenCharPositions :
    /\ NotFound(k) =>
         /\ tokenCharPositions[k].start = CursorBefore(k)
         /\ tokenCharPositions[k].end = CursorBefore(k) + Len(tokens[k])
         /\ CursorAfter(k) = tokenCharPositions[k].end
    /\ CursorBefore(k) <= CursorAfter(k)
    /\ k > 1 => tokenCharPositions[k - 1].start <= tokenCharPositions[k].start

\* C24: a token that is not found gets start = the cursor and end = the
\* cursor plus its length clamped to the length of the text, and the cursor
\* advances by the token's length, past that end when the clamp applied; a
\* token that is found leaves the cursor at its end. When no token is the
\* empty string the cursor never moves backward and the starts are
\* non-decreasing.
C24_FallbackEndIsClamped ==
  /\ \A k \in DOMAIN tokenCharPositions :
       /\ tokenCharPositions[k].start >= Min(CursorBefore(k), Len(text))
       /\ NotFound(k) =>
            /\ tokenCharPositions[k].start = CursorBefore(k)
            /\ tokenCharPositions[k].end =
                 Min(CursorBefore(k) + Len(tokens[k]), Len(text))
       /\ ~NotFound(k) =>
            tokenCharPositions[k].end =
              tokenCharPositions[k].start + Len(tokens[k])
       /\ NoEmptyToken =>
            /\ tokenCharPositions[k].start >= CursorBefore(k)
            /\ CursorBefore(k) <= CursorAfter(k)
            /\ k > 1 =>
                 tokenCharPositions[k - 1].start <= tokenCharPositions[k].start
  /\ (bpc \in {"positions", "loop", "returned", "threw"}
        /\ tokenCharPositions # <<>>) =>
       searchIdx = CursorAfter(Len(tokenCharPositions))

\* "bb" is not in "a": it gets start 0 and the clamped end 1 while the
\* cursor goes to 2; the next token is then searched from 2
C24_Witness ==
  /\ text = <<"a">>
  /\ tokens = <<<<"b", "b">>, <<"a">>>>
  /\ Len(tokenCharPositions) = 2
  /\ tokenCharPositions[1] = [start |-> 0, end |-> 1]
  /\ tokenCharPositions[2] = [start |-> 2, end |-> 1]
  /\ searchIdx = 3

\* the result of chunk c as the normalization made it from the answer
NormalizedResult(c) ==
  LET rawRespStr == RawRespStr(served[c])
  IN [chunkId |-> c,
      parsed |-> Normalize(schema, ParseChunkResponse(rawRespStr)),
      raw |-> rawRespStr]

\* C23: whatever the reduction call answers, the chunk results returned are
\* the values the normalization produced from the per-chunk answers, one per
\* chunk in id order and with their arrays whole, and the provenance map is
\* computed from them alone; the reduction step changes neither.
C23_ReductionLeavesChunkData ==
  /\ extPc \in {"reducing", "returned"} =>
       /\ Len(rawResults) = Len(chunks)
       /\ \A k \in DOMAIN rawResults : rawResults[k] = NormalizedResult(k - 1)
  /\ extPc = "returned" =>
       /\ reduceServed \in ReduceResponses
       /\ result.metadata.rawChunkResults =
            [k \in 1..Len(chunks) |-> NormalizedResult(k - 1)]
       /\ result.metadata.perFieldProvenance =
            [f \in FieldIds(schema) |->
               [sourceChunks |->
                  SourceChunks([k \in 1..Len(chunks) |-> NormalizedResult(k - 1)], f)]]

\* an array of 13 items is returned whole after the reduction prompt listed
\* its first 12, and the reduction answered with an object of its own
C23_Witness ==
  /\ extPc = "returned"
  /\ schema = EnumSchema
  /\ Len(chunks) >= 1
  /\ served[0] = "ObjA"
  /\ reduceServed = "RedB"
  /\ Len(reductionPrompt.compacted[1].data["free"].items) = ArrayPrefix
  /\ Len(result.metadata.rawChunkResults[1].parsed["free"].items) = ArrayPrefix + 1
  /\ result.metadata.perFieldProvenance["free"].sourceChunks = <<0>>

\* C28: for a document without tokens extract sends no per-chunk request
\* and exactly one reduction request, does not reject, and returns chunk
\* count 0, no chunk result, and for every schema field a provenance entry
\* with an empty list of ids.
C28_ZeroTokens ==
  (schema.present /\ Len(tokens) = 0) =>
    /\ ChunkRequests = <<>>
    /\ Len(issued) <= 1
    /\ extPc # "rejected"
    /\ extPc \in {"reducing", "returned"} =>
         /\ Len(issued) = 1
         /\ issued[1].kind = "reduce"
    /\ extPc = "returned" =>
         /\ result.metadata.chunkCount = 0
         /\ result.metadata.rawChunkResults = <<>>
         /\ DOMAIN result.metadata.perFieldProvenance = FieldIds(schema)
         /\ \A f \in FieldIds(schema) :
              result.metadata.perFieldProvenance[f].sourceChunks = <<>>

\* the empty document under the test's schema: one worker that claimed
\* nothing, one reduction request, and the result returned
C28_Witness ==
  /\ extPc = "returned"
  /\ schema = TestSchema
  /\ text = <<>>
  /\ tokens = <<>>
  /\ Len(workers) = 1
  /\ workers[1].pc = "done"
  /\ Len(issued) = 1
  /\ issued[1].kind = "reduce"
  /\ reduceServed = "RedA"
  /\ result.metadata.chunkCount = 0
  /\ result.metadata.perFieldProvenance["issue"].sourceChunks = <<>>

\* C27: with the debug option off extract writes no line to the console at
\* any step of the run, the reduction step included.
C27_SilentWhenDebugOff ==
  ~debug => consoleLog = <<>>

\* C25: in every run that passed the schema check, when every completion
\* call eventually returns or fails, extract eventually returns its result.
C25_EventuallyReturns ==
  (extPc = "chunking") ~> (extPc = "returned")

====
